---- MODULE Spec2Model ----
(***************************************************************************)
(* A model of cello.py: determine_kde_bw (bandwidth resolution) and cello  *)
(* (kernel density, ribbon geometry, colour blending, the group loop).     *)
(*                                                                         *)
(* Numbers.  Sample values are integers.  A float is modelled either as a  *)
(* fixed-point integer in units of 1/FP (bandwidths, grid coordinates) or  *)
(* as an exact rational num/den (densities, blended colours).  A float     *)
(* array is a record [num |-> <<..>>, den |-> d]; den = 0 is an array of   *)
(* NaN (the result of 0/0), so NaN propagates through every sum.           *)
(***************************************************************************)
EXTENDS Integers, Sequences, FiniteSets, TLC

\* ------------------------------------------------------------------ bounds
MaxVal == 2          \* sample values are drawn from 0..MaxVal
MaxLen == 2          \* samples per series
MaxStep == 1         \* the series of a collection are <<0, s, 2s, ..>>, s in 0..MaxStep
MaxSeries == 3       \* series per collection
MaxPoints == 3       \* the points argument is drawn from 1..MaxPoints
FP == 100            \* fixed-point resolution of a modelled float: 1/FP

\* ------------------------------------------------------- program constants
DefaultPoints == 100 \* cello(..., points=100, ...)
DefaultScale == 10   \* cello(..., scale=10, ...)
GridExtension == 3   \* values.min() - 3*bw, values.max() + 3*bw

\* ----------------------------------------------------------- small helpers
Min2(a, b) == IF a <= b THEN a ELSE b
Max2(a, b) == IF a >= b THEN a ELSE b
Abs(a) == IF a < 0 THEN -a ELSE a

RECURSIVE Gcd(_, _)
Gcd(a, b) == IF b = 0 THEN a ELSE Gcd(b, a % b)

RECURSIVE SumSeq(_)
SumSeq(s) == IF s = <<>> THEN 0 ELSE Head(s) + SumSeq(Tail(s))

RECURSIVE SumSq(_)
SumSq(s) == IF s = <<>> THEN 0 ELSE Head(s) * Head(s) + SumSq(Tail(s))

RECURSIVE MinSeq(_)
MinSeq(s) == IF Len(s) = 1 THEN s[1] ELSE Min2(Head(s), MinSeq(Tail(s)))

RECURSIVE MaxSeq(_)
MaxSeq(s) == IF Len(s) = 1 THEN s[1] ELSE Max2(Head(s), MaxSeq(Tail(s)))

RECURSIVE Flatten(_)
Flatten(rows) == IF rows = <<>> THEN <<>> ELSE Head(rows) \o Flatten(Tail(rows))

RECURSIVE Insert(_, _)
Insert(x, s) ==
    IF s = <<>> THEN <<x>>
    ELSE IF x <= Head(s) THEN <<x>> \o s
    ELSE <<Head(s)>> \o Insert(x, Tail(s))

RECURSIVE Sorted(_)
Sorted(s) == IF s = <<>> THEN <<>> ELSE Insert(Head(s), Sorted(Tail(s)))

RECURSIVE IsqrtIn(_, _, _)
IsqrtIn(v, lo, hi) ==
    IF lo >= hi THEN lo
    ELSE LET mid == (lo + hi + 1) \div 2
         IN  IF mid * mid <= v THEN IsqrtIn(v, mid, hi) ELSE IsqrtIn(v, lo, mid - 1)

\* floor(sqrt(v))
Isqrt(v) == IsqrtIn(v, 0, Min2(v, 46340))

\* ------------------------------------------------------------------ hints
\* A bandwidth hint as Python sees it: None, a keyword, a number (in 1/FP),
\* a sequence of scalar hints, or anything else.
NoneH == [tag |-> "none", num |-> 0, seq |-> <<>>]
KeyH(k) == [tag |-> k, num |-> 0, seq |-> <<>>]
NumH(k) == [tag |-> "num", num |-> k, seq |-> <<>>]
SeqH(s) == [tag |-> "seq", num |-> 0, seq |-> s]

\* isinstance(hint, (int, float))
IsNumber(hint) == hint.tag = "num"

Ok(v) == [err |-> "none", val |-> v]
Raise(e) == [err |-> e, val |-> <<>>]

\* ------------------------------------------------- determine_kde_bw, 1-D
\* values.std() in 1/FP: sqrt(n*sum(x^2) - sum(x)^2) / n
Std(series) ==
    LET n == Len(series)
    IN  Isqrt(FP * FP * (n * SumSq(series) - SumSeq(series) * SumSeq(series))) \div n

\* (num/den) ** (-1/5) in units of 1/50: the largest k with k^5 <= 50^5 * den / num
NegFifthRoot(num, den) ==
    LET lim == (312500000 * den) \div num
        ks  == {k \in 0..60 : k * k * k * k * k <= lim}
    IN  CHOOSE k \in ks : \A j \in ks : j <= k

\* 4 * np.percentile(values, q) for q = 25 * quarter (linear interpolation)
Percentile4(series, quarter) ==
    LET s   == Sorted(series)
        pos == quarter * (Len(s) - 1)
        lo  == pos \div 4
        rem == pos % 4
    IN  IF rem = 0 THEN 4 * s[lo + 1]
        ELSE 4 * s[lo + 1] + rem * (s[lo + 2] - s[lo + 1])

\* (percentile 75 - percentile 25) / 1.349, in 1/FP
Iqr(series) ==
    ((Percentile4(series, 3) - Percentile4(series, 1)) * FP * 1000) \div (4 * 1349)

ScottRule(series) == (Std(series) * NegFifthRoot(Len(series), 1)) \div 50

SilvermanRule(series) ==
    (NegFifthRoot(3 * Len(series), 4) * Min2(Std(series), Iqr(series))) \div 50

\* lines 59-68: the single-series branch.  An empty series makes
\* values.size ** (-1/5) divide by zero: an exception, here "Empty".
BwSingle(series, hint, rule) ==
    IF IsNumber(hint) THEN Ok(hint.num)
    ELSE IF rule = "scott" THEN
        IF Len(series) = 0 THEN Raise("Empty") ELSE Ok(ScottRule(series))
    ELSE IF rule = "silverman" THEN
        IF Len(series) = 0 THEN Raise("Empty") ELSE Ok(SilvermanRule(series))
    ELSE Raise("UnknownRule")

\* ------------------------------------------------- determine_kde_bw, 2-D
RECURSIVE LocalBws(_, _)
LocalBws(rows, rule) ==
    IF rows = <<>> THEN Ok(<<>>)
    ELSE LET first == BwSingle(Head(rows), NoneH, rule)
         IN  IF first.err # "none" THEN Raise(first.err)
             ELSE LET rest == LocalBws(Tail(rows), rule)
                  IN  IF rest.err # "none" THEN Raise(rest.err)
                      ELSE Ok(<<NumH(first.val)>> \o rest.val)

Repeat(n, x) == [i \in 1..n |-> x]

\* line 40: hint is None or hint == 'global'
IsGlobalHint(hint) == hint.tag \in {"none", "global"}

\* a length check that is never made
IsSeqOfLenAny(hint, n) == hint.tag = "seq"

\* line 49: a list/tuple/array of length n
IsSeqOfLen(hint, n) == hint.tag = "seq" /\ Len(hint.seq) = n

\* lines 38-55: the multi-series branch; the result is a tuple of scalar hints
BwMulti(rows, hint, rule) ==
    LET n == Len(rows)
    IN  IF IsGlobalHint(hint) THEN
            LET g == BwSingle(Flatten(rows), NoneH, rule)
            IN  IF g.err # "none" THEN Raise(g.err) ELSE Ok(Repeat(n, NumH(g.val)))
        ELSE IF hint.tag = "local" THEN LocalBws(rows, rule)
        ELSE IF IsNumber(hint) THEN Ok(Repeat(n, hint))
        ELSE IF IsSeqOfLen(hint, n) THEN Ok(hint.seq)
        ELSE Raise("InvalidHint")

\* determine_kde_bw(values, hint, rule); a single series yields a 1-tuple here
DetermineKdeBw(values, ndim, hint, rule) ==
    IF ndim > 1 THEN BwMulti(values, hint, rule)
    ELSE LET b == BwSingle(values, hint, rule)
         IN  IF b.err # "none" THEN Raise(b.err) ELSE Ok(<<NumH(b.val)>>)

\* ------------------------------------------------------------ float arrays
\* the sequence s in explicit form (a tuple rather than a function expression)
Tup(s) == s \o <<>>

\* den = 0: every entry is NaN
NaNArr(n) == [num |-> Tup([i \in 1..n |-> 0]), den |-> 0]
IsNaNArr(a) == a.den = 0

RECURSIVE GcdSeq(_, _)
GcdSeq(s, g) == IF s = <<>> \/ g = 1 THEN g ELSE GcdSeq(Tail(s), Gcd(Abs(Head(s)), g))

\* the same values over the smallest denominator
Normalize(a) ==
    IF a.den = 0 THEN NaNArr(Len(a.num))
    ELSE LET g == GcdSeq(a.num, a.den)
         IN  [num |-> Tup([i \in 1..Len(a.num) |-> a.num[i] \div g]),
              den |-> a.den \div g]

\* a + b, elementwise, for arrays of one length
AddArr(a, b) ==
    IF a.den = 0 \/ b.den = 0 THEN NaNArr(Len(a.num))
    ELSE LET g  == Gcd(a.den, b.den)
             fa == b.den \div g
             fb == a.den \div g
         IN  Normalize([num |-> Tup([i \in 1..Len(a.num) |->
                                         a.num[i] * fa + b.num[i] * fb]),
                        den |-> a.den * fa])

NegArr(a) == [num |-> Tup([i \in 1..Len(a.num) |-> -a.num[i]]), den |-> a.den]

\* a * flag for a Python bool flag; NaN * 0 stays NaN
MulFlag(a, flag) ==
    IF flag \/ a.den = 0 THEN a
    ELSE [num |-> Tup([i \in 1..Len(a.num) |-> 0]), den |-> 1]

\* a + k for an integer k
AddScalar(a, k) ==
    IF a.den = 0 THEN a
    ELSE [num |-> Tup([i \in 1..Len(a.num) |-> a.num[i] + k * a.den]), den |-> a.den]

Reverse(s) == Tup([i \in 1..Len(s) |-> s[Len(s) + 1 - i]])
ReverseArr(a) == [num |-> Reverse(a.num), den |-> a.den]

\* np.hstack([a, b]) of two rows
HStack(a, b) ==
    IF a.den = 0 /\ b.den = 0 THEN NaNArr(Len(a.num) + Len(b.num))
    ELSE LET g  == Gcd(a.den, b.den)
             fa == b.den \div g
             fb == a.den \div g
         IN  [num |-> Tup([i \in 1..Len(a.num) |-> a.num[i] * fa])
                      \o [i \in 1..Len(b.num) |-> b.num[i] * fb],
              den |-> a.den * fa]

SumArr(a) == SumSeq(a.num)

\* ------------------------------------------------------ kernel and density
\* line 203: np.linspace(values.min() - 3*bw, values.max() + 3*bw, points);
\* entry i is lo + (i-1)*(hi-lo)/(points-1), over the denominator FP*(points-1)
GridSteps(points) == Max2(points - 1, 1)

Linspace(series, bw, points) ==
    LET lo == FP * MinSeq(series) - GridExtension * bw
        hi == FP * MaxSeq(series) + GridExtension * bw
        d  == GridSteps(points)
    IN  [num |-> Tup([i \in 1..points |-> lo * d + (i - 1) * (hi - lo)]),
         den |-> FP * d]

\* |x[i] - values[j]| in units of 1/x.den
Dist(x, i, v) == Abs(x.num[i] - x.den * v)

\* round(4 * exp(-(r/2)^2)); exp is positive, so never below one unit
KernelTable == <<4, 3, 1>>

\* np.exp(-(d / b)^2) for a distance d (in 1/den) and a bandwidth b > 0
\* (in 1/FP), read off KernelTable at the distance in half bandwidths
Kernel(d, den, b) ==
    LET r == (2 * d * FP) \div (b * den)
    IN  IF r < Len(KernelTable) THEN KernelTable[r + 1] ELSE 1

\* line 204: w[i][j]; with bw = 0 the entries are 0 or NaN and every sum
\* over them is NaN (x[1] is exactly values.min())
Weights(series, x, bw) ==
    [i \in 1..Len(x.num) |->
        Tup([j \in 1..Len(series) |-> Kernel(Dist(x, i, series[j]), x.den, bw)])]

RowSums(w) == Tup([i \in 1..Len(w) |-> SumSeq(w[i])])

\* line 205: y = scale * w.sum(axis=1) / w.sum()
Density(series, x, bw, scale) ==
    IF bw = 0 THEN NaNArr(Len(x.num))
    ELSE LET rs == RowSums(Weights(series, x, bw))
         IN  Normalize([num |-> Tup([i \in 1..Len(rs) |-> scale * rs[i]]),
                        den |-> SumSeq(rs)])


\* ---------------------------------------------------------------- options
NoneV == [some |-> FALSE, v |-> 0]
Some(x) == [some |-> TRUE, v |-> x]

\* ----------------------------------------------------------------- colours
\* A colour spec: None; one colour (a name or an RGBA tuple, resolved by the
\* external to_rgba into [0,1]); an array of one RGBA row per sample; or, for
\* 2-D values, one such array per series.  Channel values are integers.
NoColor == [tag |-> "none", rows |-> <<>>]
SingleColor(rgba) == [tag |-> "single", rows |-> <<rgba>>]
PerSample(rows) == [tag |-> "persample", rows |-> rows]
PerGroup(arrays) == [tag |-> "pergroup", rows |-> arrays]

\* lines 193-200: a single colour is tiled to one row per sample
TileColor(c, n) ==
    IF c.tag = "single" THEN PerSample([j \in 1..n |-> c.rows[1]]) ELSE c

NaN == [n |-> 0, d |-> 0]
IsNaN(v) == v.d = 0

\* np.clip(v, 0, 1); NaN passes through
Clip(v) ==
    IF v.d = 0 THEN v
    ELSE IF v.n < 0 THEN [n |-> 0, d |-> 1]
    ELSE IF v.n > v.d THEN [n |-> 1, d |-> 1]
    ELSE v

\* line 231: w **= (bw/cbw)**2, the kernel at the colour bandwidth.  With
\* bw = 0 the exponent is 0 (every entry becomes 1) or, for cbw = 0, NaN;
\* with cbw = 0 < bw it is infinite: 1 stays 1, anything smaller becomes 0.
ColorWeights(series, x, bw, cbw) ==
    [i \in 1..Len(x.num) |-> Tup([j \in 1..Len(series) |->
        IF bw = 0 THEN 1
        ELSE IF cbw = 0 THEN (IF Dist(x, i, series[j]) = 0 THEN 1 ELSE 0)
        ELSE Kernel(Dist(x, i, series[j]), x.den, cbw)])]

RECURSIVE Dot(_, _, _)
Dot(wrow, rows, k) ==
    IF wrow = <<>> THEN 0
    ELSE Head(wrow) * Head(rows)[k] + Dot(Tail(wrow), Tail(rows), k)

\* line 232: np.clip((w @ c) / w.sum(axis=1)[:, None], 0, 1)
Blend(series, x, bw, cbw, rows) ==
    LET w == ColorWeights(series, x, bw, cbw)
    IN  Tup([i \in 1..Len(x.num) |->
            LET wi == w[i]
                ws == SumSeq(wi)
            IN  Tup([k \in 1..Len(rows[1]) |->
                    IF (bw = 0 /\ cbw = 0) \/ ws = 0 THEN NaN
                    ELSE Clip([n |-> Dot(wi, rows, k), d |-> ws])])])

\* lines 233-235: np.array([c, c]), or np.hstack([c, c[::-1]]) with a basis
MeshColors(c, hasBasis) ==
    IF hasBasis THEN Tup([i \in 1..Len(c) |-> c[i] \o c[Len(c) + 1 - i]])
    ELSE <<c, c>>

\* ------------------------------------------------------------------ ribbon
\* line 211: yy = (np.array([y, -y]).T * (1, side not in ('right', 'left'))).T
SideRows(y, side) == <<y, MulFlag(NegArr(y), side \notin {"right", "left"})>>

\* lines 210-223: the value-axis rows yy and the grid-axis rows xx
Ribbon(x, y, basis, side, position, horizontal) ==
    LET yy0 == SideRows(y, side)
        yy1 == IF basis.some THEN <<yy0[1], basis.v>> ELSE yy0
        both == basis.some /\ side \notin {"left", "right"}
        yy2 == IF ~basis.some \/ side = "left" THEN yy1
               ELSE IF side = "right" THEN <<NegArr(yy1[1]), NegArr(yy1[2])>>
               ELSE <<HStack(yy1[1], NegArr(ReverseArr(yy1[1]))),
                      HStack(yy1[2], NegArr(ReverseArr(yy1[2])))>>
        xx2 == IF both THEN <<HStack(x, ReverseArr(x)), HStack(x, ReverseArr(x))>>
               ELSE <<x, x>>
        yy3 == IF position.some
               THEN <<AddScalar(yy2[1], position.v), AddScalar(yy2[2], position.v)>>
               ELSE yy2
    IN  IF horizontal THEN [xx |-> xx2, yy |-> yy3] ELSE [xx |-> yy3, yy |-> xx2]

\* the rows of the polygon that carry the density, whatever the orientation
ValueRows(poly, horizontal) == IF horizontal THEN poly.yy ELSE poly.xx

\* lines 241-261: the polylines handed to ax.plot
LineCount(basis, side) ==
    IF basis.some /\ side \notin {"left", "right"} THEN 6 ELSE 4

\* ------------------------------------------------------- cello, one series
\* an exception out of the call; computed tells whether line 205 was reached
SoloFail(e, computed) ==
    [err |-> e, computed |-> computed, x |-> NaNArr(0), y |-> NaNArr(0),
     poly |-> [xx |-> <<>>, yy |-> <<>>], mesh |-> NoneV, lines |-> 0]

\* lines 206-207: y += basis
AddBasis(own, basis) == IF basis.some THEN AddArr(own, basis.v) ELSE own

\* lines 188-263, with bw and cbw resolved numbers (in 1/FP)
Solo(series, c, position, basis, bw, cbw, scale, points, side, horizontal) ==
    LET col == TileColor(c, Len(series))
    IN  IF Len(series) = 0 THEN SoloFail("Empty", 0)
        ELSE LET x   == Linspace(series, bw, points)
                 own == Density(series, x, bw, scale)
             IN  IF basis.some /\ Len(basis.v.num) # points THEN SoloFail("Shape", 1)
                 ELSE IF col.tag # "none" /\ Len(col.rows) # Len(series)
                      THEN SoloFail("ColorShape", 1)
                 ELSE LET y == AddBasis(own, basis)
                      IN  [err   |-> "none",
                           computed |-> 1,
                           x     |-> x,
                           y     |-> y,
                           poly  |-> Ribbon(x, y, basis, side, position, horizontal),
                           mesh  |-> IF col.tag = "none" THEN NoneV
                                     ELSE Some(MeshColors(
                                              Blend(series, x, bw, cbw, col.rows),
                                              basis.some)),
                           lines |-> LineCount(basis, side)]

\* lines 154-263 for a single series: bandwidths first, then the body
CelloSingle(series, c, position, basis, bwHint, cbwHint, rule, scale, points, side, hz) ==
    LET b == BwSingle(series, bwHint, rule)
    IN  IF b.err # "none" THEN SoloFail(b.err, 0)
        ELSE LET cb == IF cbwHint.tag = "none" THEN b
                       ELSE BwSingle(series, cbwHint, rule)
             IN  IF cb.err # "none" THEN SoloFail(cb.err, 0)
                 ELSE Solo(series, c, position, basis, b.val, cb.val, scale, points,
                           side, hz)


\* ------------------------------------------------------------------- state
VARIABLES
    arg,       \* the arguments of the call of cello
    heap,      \* the arrays alive during the call, by address
    bw,        \* line 157: the resolved bandwidths, one scalar hint per series
    cbw,       \* lines 158-161: the resolved colour bandwidths
    basis,     \* the name basis: the address it is bound to, if any
    idx,       \* the number of series the loop of line 171 has completed
    group,     \* the per-series result dictionaries, in order
    rendered,  \* what has been handed to the renderer (ax.pcolormesh, ax.plot)
    drawn,     \* the polygon and the mesh colours of the series drawn last
    densities, \* the number of density arrays computed so far (line 205)
    pc,        \* "start", "group", "solo", "done" or "error"
    err        \* the exception that ended the call, or "none"

vars == <<arg, heap, bw, cbw, basis, idx, group, rendered, drawn, densities, pc, err>>

ValuesAddr == 1
BasisAddr == 2

Values == heap[ValuesAddr].num
NSeries == IF arg.ndim = 2 THEN Len(Values) ELSE 1

\* ------------------------------------------------------------------ inputs
RECURSIVE SeqsOf(_, _)
SeqsOf(S, n) ==
    IF n = 0 THEN {<<>>}
    ELSE {<<x>> \o t : x \in S, t \in SeqsOf(S, n - 1)}

IsSorted(s) == \A i \in 1..(Len(s) - 1) : s[i] <= s[i + 1]

\* the samples of a single series, in ascending order
SoloSeries == {s \in UNION {SeqsOf(0..MaxVal, n) : n \in 0..MaxLen} : IsSorted(s)}

\* a collection of k series, series i being <<0, s, 2s, ..>> for the step
\* s = (first + i) % (MaxStep + 1): rows of different spread, some constant
Row(s) == [j \in 1..MaxLen |-> (j - 1) * s]
Collection(first, k) == [i \in 1..k |-> Row((first + i) % (MaxStep + 1))]
Collections == {Collection(first, k) : first \in 0..MaxStep, k \in 2..MaxSeries}

Ramp(n) == [num |-> [i \in 1..n |-> (i - 1) % 3], den |-> 1]
Zeros(n) == [num |-> [i \in 1..n |-> 0], den |-> 1]
NoArray == [num |-> <<>>, den |-> 1]

\* RGBA rows with channels outside [0,1]
ColorRow(j) == IF j % 2 = 1 THEN <<2, -1, 0, 1>> ELSE <<0, 1, 3, 1>>
ColorRows(n) == [j \in 1..n |-> ColorRow(j)]

Rules == {"scott", "silverman", "bogus"}
Sides == {"both", "left", "right"}

SoloColor(k, n) ==
    CASE k = 0 -> NoColor
      [] k = 1 -> SingleColor(<<1, 0, 0, 1>>)
      [] k = 2 -> PerSample(ColorRows(n))
      [] OTHER -> PerSample(ColorRows(n + 1))

\* the caller's basis: none, one of the grid's length, or one of another length
SoloBasis(k, points) ==
    CASE k = 0 -> NoArray
      [] k = 1 -> Ramp(points)
      [] OTHER -> Ramp(points + 1)

InitSolo ==
    \E series \in SoloSeries, c \in 0..3, b \in 0..2, hz \in BOOLEAN,
       h \in {NoneH, NumH(FP)}, ch \in {NoneH, NumH(FP \div 4)},
       sc \in {1, DefaultScale}, pts \in 1..MaxPoints, sd \in Sides, r \in Rules :
        /\ arg = [ndim |-> 1, c |-> SoloColor(c, Len(series)),
                  position |-> IF hz THEN Some(2) ELSE NoneV, hasBasis |-> b # 0,
                  bw |-> h, cbw |-> ch, scale |-> sc, points |-> pts,
                  horizontal |-> hz, side |-> sd, bwrule |-> r]
        /\ heap = <<[num |-> series, den |-> 1], SoloBasis(b, pts)>>
        /\ basis = IF b # 0 THEN Some(BasisAddr) ELSE NoneV

GroupHints(n) ==
    {NoneH, KeyH("global"), KeyH("local"), NumH(FP), KeyH("other"),
     SeqH([i \in 1..n |-> NumH(FP \div 2)]),
     SeqH([i \in 1..n |-> IF i = 1 THEN NumH(FP) ELSE NoneH]),
     SeqH([i \in 1..(n - 1) |-> NumH(FP)])}

GroupColor(k, rows) ==
    CASE k = 0 -> NoColor
      [] k = 1 -> PerSample(ColorRows(MaxLen))
      [] OTHER -> PerGroup([i \in 1..(Len(rows) - 1) |-> ColorRows(MaxLen)])

InitGroup ==
    \E rows \in Collections, k \in 0..2, b \in 0..2, ch \in {0, 1}, r \in Rules,
       pts \in {MaxPoints, DefaultPoints} : \E h \in GroupHints(Len(rows)) :
        /\ arg = [ndim |-> 2, c |-> GroupColor(k, rows), position |-> NoneV,
                  hasBasis |-> b # 0, bw |-> h,
                  cbw |-> IF ch = 0 THEN NoneH ELSE SeqH(<<NumH(FP)>>),
                  scale |-> 1, points |-> pts, horizontal |-> FALSE,
                  side |-> "both", bwrule |-> r]
        /\ heap = <<[num |-> rows, den |-> 1],
                    CASE b = 0 -> NoArray
                      [] b = 1 -> Zeros(DefaultPoints)
                      [] OTHER -> Ramp(DefaultPoints)>>
        /\ basis = IF b # 0 THEN Some(BasisAddr) ELSE NoneV

Init ==
    /\ InitSolo \/ InitGroup
    /\ bw = <<>>
    /\ cbw = <<>>
    /\ idx = 0
    /\ group = <<>>
    /\ rendered = <<>>
    /\ drawn = [poly |-> [xx |-> <<>>, yy |-> <<>>], mesh |-> NoneV]
    /\ densities = 0
    /\ pc = "start"
    /\ err = "none"

\* ----------------------------------------------------------------- actions
Fail(e) ==
    /\ pc' = "error"
    /\ err' = e

\* lines 154-161
ResolveBandwidths ==
    /\ pc = "start"
    /\ LET b == DetermineKdeBw(Values, arg.ndim, arg.bw, arg.bwrule)
       IN  IF b.err # "none"
           THEN Fail(b.err) /\ UNCHANGED <<bw, cbw>>
           ELSE LET cb == IF arg.cbw.tag = "none" THEN b
                          ELSE DetermineKdeBw(Values, arg.ndim, arg.cbw, arg.bwrule)
                IN  IF cb.err # "none"
                    THEN Fail(cb.err) /\ UNCHANGED <<bw, cbw>>
                    ELSE /\ bw' = b.val
                         /\ cbw' = cb.val
                         /\ pc' = IF arg.ndim = 2 THEN "group" ELSE "solo"
                         /\ err' = err
    /\ UNCHANGED <<arg, heap, basis, idx, group, rendered, drawn, densities>>

BasisValue == IF basis.some THEN Some(heap[basis.v]) ELSE NoneV

\* what one finished series hands to the renderer: the mesh (line 236), then
\* the polylines (lines 241-261)
Artifacts(r, series) ==
    (IF r.mesh.some THEN <<[kind |-> "mesh", series |-> series]>> ELSE <<>>)
    \o [i \in 1..r.lines |-> [kind |-> "line", series |-> series]]

\* line 263: the returned dictionary; x and y are the arrays at these
\* addresses, mesh tells whether ax.pcolormesh returned an artist
ResultDict(r, xAddr, yAddr) ==
    [points |-> xAddr, density |-> yAddr, mesh |-> r.mesh.some]

\* line 183 with an augmented assignment: basis += group[-1]['density']
RebindBasisInPlace(h, b, yAddr) ==
    [heap  |-> [h EXCEPT ![b] = AddArr(h[b], h[yAddr])],
     basis |-> Some(b)]

\* line 183: basis = basis + group[-1]['density'] binds the name to a new array
RebindBasis(h, b, yAddr) ==
    [heap  |-> Append(h, AddArr(h[b], h[yAddr])),
     basis |-> Some(Len(h) + 1)]

\* lines 188-263 on a 1-D input
SoloCall ==
    /\ pc = "solo"
    /\ \E r \in {Solo(Values, arg.c, arg.position, BasisValue, bw[1].num, cbw[1].num,
                      arg.scale, arg.points, arg.side, arg.horizontal)} :
           IF r.err # "none"
           THEN /\ Fail(r.err)
                /\ densities' = densities + r.computed
                /\ UNCHANGED <<heap, group, rendered, drawn>>
           ELSE /\ heap' = heap \o <<r.x, r.y>>
                /\ group' = <<ResultDict(r, Len(heap) + 1, Len(heap) + 2)>>
                /\ rendered' = Artifacts(r, 1)
                /\ drawn' = [poly |-> r.poly, mesh |-> r.mesh]
                /\ densities' = densities + 1
                /\ pc' = "done"
                /\ err' = err
    /\ UNCHANGED <<arg, bw, cbw, basis, idx>>

\* line 175: colors = c[idx] for a 3-D colour array
SeriesColor(c, i) ==
    IF c.tag = "pergroup" THEN PerSample(c.rows[i]) ELSE c

\* lines 171-183: one iteration of the loop, the nested call of cello included
GroupStep ==
    /\ pc = "group"
    /\ idx < NSeries
    /\ LET i   == idx + 1
           pos == IF arg.position.some THEN arg.position ELSE Some(i)
       IN  IF arg.c.tag = "pergroup" /\ i > Len(arg.c.rows)
           THEN Fail("ColorShape")
                /\ UNCHANGED <<heap, basis, idx, group, rendered, drawn, densities>>
           ELSE \E r \in {CelloSingle(Values[i], SeriesColor(arg.c, i), pos, BasisValue,
                                      bw[i], cbw[i], arg.bwrule, arg.scale,
                                      DefaultPoints, arg.side, arg.horizontal)} :
                IF r.err # "none"
                THEN /\ Fail(r.err)
                     /\ densities' = densities + r.computed
                     /\ UNCHANGED <<heap, basis, idx, group, rendered, drawn>>
                ELSE LET h1 == heap \o <<r.x, r.y>>
                         yAddr == Len(heap) + 2
                         nb == IF basis.some THEN RebindBasis(h1, basis.v, yAddr)
                               ELSE [heap |-> h1, basis |-> basis]
                     IN  /\ heap' = nb.heap
                         /\ basis' = nb.basis
                         /\ group' = Append(group, ResultDict(r, yAddr - 1, yAddr))
                         /\ rendered' = rendered \o Artifacts(r, i)
                         /\ drawn' = [poly |-> r.poly, mesh |-> r.mesh]
                         /\ densities' = densities + 1
                         /\ idx' = i
                         /\ UNCHANGED <<pc, err>>
    /\ UNCHANGED <<arg, bw, cbw>>

\* line 184
GroupReturn ==
    /\ pc = "group"
    /\ idx = NSeries
    /\ pc' = "done"
    /\ UNCHANGED <<arg, heap, bw, cbw, basis, idx, group, rendered, drawn, densities,
                   err>>

Next == ResolveBandwidths \/ SoloCall \/ GroupStep \/ GroupReturn

Spec == Init /\ [][Next]_vars

\* ------------------------------------------------------------------ claims
\* a = b as arrays of numbers (NaN arrays compare equal to each other here)
ArrEq(a, b) ==
    /\ Len(a.num) = Len(b.num)
    /\ (a.den = 0) = (b.den = 0)
    /\ \A i \in 1..Len(a.num) : a.num[i] * b.den = b.num[i] * a.den

\* the un-stacked kernel density of series k of the collection, on its grid
OwnDensity(k) ==
    LET b == BwSingle(Values[k], bw[k], arg.bwrule).val
    IN  Density(Values[k], Linspace(Values[k], b, DefaultPoints), b, arg.scale)

\* the caller's basis plus the own densities of the first k series
RECURSIVE StackedOwn(_)
StackedOwn(k) ==
    IF k = 0 THEN heap[BasisAddr] ELSE AddArr(StackedOwn(k - 1), OwnDensity(k))

\* C1: with stacking, the basis held after series 1..idx (the one passed to
\* the next series) is the initial basis plus the sum of the own densities of
\* those series.
C1StackingLaw ==
    (arg.ndim = 2 /\ arg.hasBasis /\ pc \in {"group", "done"})
        => ArrEq(heap[basis.v], StackedOwn(idx))

\* C2: on a 2-D input, the bandwidths resolved for hint None are those that
\* hint 'local' yields, for every rule.
C2NoneIsLocal ==
    (arg.ndim = 2 /\ arg.bw.tag = "none" /\ pc = "group")
        => LET loc == BwMulti(Values, KeyH("local"), arg.bwrule)
           IN  loc.err = "none" /\ bw = loc.val

Offset == IF arg.position.some THEN arg.position.v ELSE 0

\* the value-axis rows of the ribbon the finished single-series call builds
\* for a side, from its grid, its density and its basis
RowsFor(side) ==
    ValueRows(Ribbon(heap[group[1].points], heap[group[1].density], BasisValue, side,
                     arg.position, arg.horizontal),
              arg.horizontal)

\* rows a and b mirror each other about the position offset
Mirrored(a, b) ==
    \A r \in 1..2 : ArrEq(AddScalar(a[r], -Offset), NegArr(AddScalar(b[r], -Offset)))

\* C3: for one series, bandwidth, position and basis (or none), the left and
\* the right ribbon are sign-negations of each other about the position, and
\* the ribbon for 'both' is the left half followed by the right half.
C3SideSelection ==
    (arg.ndim = 1 /\ pc = "done")
        => LET d == ValueRows(drawn.poly, arg.horizontal)
               l == RowsFor("left")
               r == RowsFor("right")
           IN  /\ arg.side = "left" => Mirrored(d, r)
               /\ arg.side = "right" => Mirrored(l, d)
               /\ (arg.side = "both" /\ arg.hasBasis)
                    => \A k \in 1..2 : ArrEq(d[k], HStack(l[k], ReverseArr(r[k])))
               /\ (arg.side = "both" /\ ~arg.hasBasis)
                    => ArrEq(d[1], l[1]) /\ ArrEq(d[2], r[1])

\* a hint the multi-series branch does not recognise
InvalidHint(hint) ==
    hint.tag = "other" \/ (hint.tag = "seq" /\ Len(hint.seq) # NSeries)

HintRejected ==
    arg.ndim = 2 /\ pc # "start" /\ (InvalidHint(arg.bw) \/ InvalidHint(arg.cbw))

C5NeverNaN ==
    \A k \in 1..Len(group) : ~IsNaNArr(heap[group[k].density])

\* C6: for a single series with bandwidth > 0, with or without a basis, the
\* returned density is non-negative and sums to scale over the grid.
C6Normalized ==
    (arg.ndim = 1 /\ pc = "done" /\ bw[1].num > 0)
        => LET y == heap[group[1].density]
           IN  /\ y.den > 0
               /\ \A i \in 1..Len(y.num) : y.num[i] >= 0
               /\ SumArr(y) = arg.scale * y.den

\* C7: every returned grid and density array has exactly points entries, for
\* a single series and for every series of a collection.
C7GridLength ==
    \A k \in 1..Len(group) :
        /\ Len(heap[group[k].points].num) = arg.points
        /\ Len(heap[group[k].density].num) = arg.points

\* C8: when a call on a collection ends in an error, nothing has been handed
\* to the renderer and no per-series result exists.
C8NoPartialResults ==
    (arg.ndim = 2 /\ pc = "error") => rendered = <<>> /\ group = <<>>

C10Frame ==
    [][pc = "group" =>
        /\ heap'[ValuesAddr] = heap[ValuesAddr]
        /\ heap'[BasisAddr] = heap[BasisAddr]
        /\ \A k \in 1..Len(group) :
            /\ group'[k] = group[k]
            /\ heap'[group[k].points] = heap[group[k].points]
            /\ heap'[group[k].density] = heap[group[k].density]]_vars

\* a stacked collection whose loop has stored two results and rebound basis
C10Witness ==
    /\ arg.ndim = 2
    /\ arg.hasBasis
    /\ idx >= 2
    /\ ~IsNaNArr(heap[basis.v])

====
